---------------------------- MODULE Spec2Model ----------------------------
(* benchmark-runner: the trial orchestration loop (src/runner.py) and the   *)
(* metrics reduction (src/metrics.py).                                      *)
(*                                                                          *)
(* Latencies are the floats the adapters parse out of decimal digits, so    *)
(* they are modelled as integers; medians, means and ratios of them are     *)
(* modelled as rationals <<n, d>> in lowest terms with d > 0, each standing *)
(* for the double nearest to it. A float operation on values that are not   *)
(* held exactly is carried out on the doubles themselves.                   *)
EXTENDS Integers, Sequences, FiniteSets, TLC

(***************************************************************************)
(* Bounds of the model                                                     *)
(***************************************************************************)
\* largest value of the `trials` argument of run_benchmarks
MaxTrials == 2
\* longest per-trial iteration array given to compute_metrics
MaxLen == 2
\* largest number of trials in an accumulation given to compute_metrics
MaxArrays == 2
\* last second the wall clock reaches
MaxClock == 2

(***************************************************************************)
(* Program constants                                                       *)
(***************************************************************************)
\* RunResult.compile_time default, and the value appended for a missing artifact
ABSENT == -1
\* the window of cold_optimal: cold[-10:]
TAIL == 10

(***************************************************************************)
(* Exact rational arithmetic                                               *)
(***************************************************************************)
Abs(x) == IF x < 0 THEN -x ELSE x

RECURSIVE GCD(_, _)
GCD(a, b) == IF b = 0 THEN a ELSE GCD(b, a % b)

\* the rational n/d (d # 0) in lowest terms with a positive denominator
Rat(n, d) ==
  LET g == GCD(Abs(n), Abs(d))
      s == IF d < 0 THEN -1 ELSE 1
  IN  <<(s * n) \div g, (s * d) \div g>>

RatOfInt(i) == <<i, 1>>
RatAdd(x, y) == Rat(x[1] * y[2] + y[1] * x[2], x[2] * y[2])
RatDiv(x, y) == Rat(x[1] * y[2], x[2] * y[1])
RatDivInt(x, k) == Rat(x[1], x[2] * k)
RatLe(x, y) == x[1] * y[2] <= y[1] * x[2]
RatPos(x) == x[1] > 0

RECURSIVE RatSum(_)
RatSum(s) == IF s = <<>> THEN RatOfInt(0) ELSE RatAdd(Head(s), RatSum(Tail(s)))

(***************************************************************************)
(* statistics.median / statistics.mean                                     *)
(***************************************************************************)
RECURSIVE Insert(_, _)
Insert(x, s) ==
  IF s = <<>> THEN <<x>>
  ELSE IF x <= Head(s) THEN <<x>> \o s
  ELSE <<Head(s)>> \o Insert(x, Tail(s))

RECURSIVE Sorted(_)
Sorted(s) == IF s = <<>> THEN <<>> ELSE Insert(Head(s), Sorted(Tail(s)))

\* mutation: statistics.median_low, the lower of the two middle values
median_low(vals) ==
  LET d == Sorted(vals)
      n == Len(d)
  IN  RatOfInt(d[(n + 1) \div 2])

\* statistics.median of a non-empty sequence of integers: the middle value,
\* or the mean of the two middle values when the count is even
median(vals) ==
  LET d == Sorted(vals)
      n == Len(d)
      i == n \div 2
  IN  IF n % 2 = 1 THEN RatOfInt(d[i + 1])
      ELSE Rat(d[i] + d[i + 1], 2)

\* statistics.mean of a non-empty sequence of rationals
mean(vals) == RatDivInt(RatSum(vals), Len(vals))

(***************************************************************************)
(* src/metrics.py                                                          *)
(***************************************************************************)
MaxOf(S) == CHOOSE m \in S : \A x \in S : x <= m

\* [t[i] for t in trial_arrays if len(t) > i], i counted from 0
RECURSIVE ValsAt(_, _)
ValsAt(trial_arrays, i) ==
  IF trial_arrays = <<>> THEN <<>>
  ELSE LET t == Head(trial_arrays)
       IN  (IF Len(t) > i THEN <<t[i + 1]>> ELSE <<>>)
             \o ValsAt(Tail(trial_arrays), i)

\* mutation: the curve is cut at the length of the shortest non-empty trial
MedianShortest(trial_arrays) ==
  IF trial_arrays = <<>> \/ \A k \in DOMAIN trial_arrays : trial_arrays[k] = <<>>
  THEN <<>>
  ELSE LET min_len == -MaxOf({-Len(trial_arrays[k]) :
                                k \in {j \in DOMAIN trial_arrays : trial_arrays[j] # <<>>}})
       IN  [i \in 1..min_len |-> median(ValsAt(trial_arrays, i - 1))]
\* _median_across_trials
median_across_trials(trial_arrays) ==
  IF trial_arrays = <<>> \/ \A k \in DOMAIN trial_arrays : trial_arrays[k] = <<>>
  THEN <<>>
  ELSE LET max_len == MaxOf({Len(trial_arrays[k]) : k \in DOMAIN trial_arrays})
       IN  [i \in 1..max_len |->
              LET vals == ValsAt(trial_arrays, i - 1)
              IN  IF vals # <<>> THEN median(vals) ELSE RatOfInt(0)]

\* mutation: a compile time of zero is taken for an absent one
PresentCompileTimesPositive(compile_times) ==
  SelectSeq(compile_times, LAMBDA t : t > 0)
\* [t for t in data["compile_times"] if t >= 0]
PresentCompileTimes(compile_times) == SelectSeq(compile_times, LAMBDA t : t >= 0)

\* mutation: the window is the whole curve
ColdTailAll(cold) == cold
\* cold[-10:] if len(cold) >= 10 else cold
ColdTail(cold) ==
  IF Len(cold) >= TAIL THEN SubSeq(cold, Len(cold) - TAIL + 1, Len(cold)) ELSE cold

\* Python floats. A rational <<n, d>> of the model, n >= 0, stands for the
\* double nearest to n / d: float(n) of the DaCapo adapter and
\* duration_ns / 1_000_000 of the Renaissance adapter are correctly rounded.
\* A double is m * 2^e with the 53-bit mantissa m = hi * 2^28 + lo, or zero.
HALF == 2 ^ 28
LIMB == 2 ^ 14
DoubleZero == [hi |-> 0, lo |-> 0, e |-> 0]

\* round to nearest, ties to even: the mantissa hi, lo is followed by the bit
\* rb and, when sticky, by further non-zero bits
RoundNearestEven(hi, lo, rb, sticky, e) ==
  IF rb = 1 /\ (sticky \/ lo % 2 = 1)
  THEN IF lo + 1 < HALF THEN [hi |-> hi, lo |-> lo + 1, e |-> e]
       ELSE IF hi + 1 < LIMB * 2048 THEN [hi |-> hi + 1, lo |-> 0, e |-> e]
       ELSE [hi |-> LIMB * 1024, lo |-> 0, e |-> e + 1]
  ELSE [hi |-> hi, lo |-> lo, e |-> e]

\* Multi-word integers are sequences of 14-bit limbs, lowest first.
Limb(p, i) == IF i \in 1..Len(p) THEN p[i] ELSE 0
\* the number of bits of a limb
BitLength(v) == CHOOSE n \in 0..14 : v < 2 ^ n /\ (n = 0 \/ v >= 2 ^ (n - 1))
\* limb j of p shifted right by s bits
ShiftedLimb(p, s, j) ==
  Limb(p, j + s \div 14) \div 2 ^ (s % 14)
    + (Limb(p, j + s \div 14 + 1) % 2 ^ (s % 14)) * 2 ^ (14 - (s % 14))
\* p * 2^e as a double, for p zero or of 54 bits or more: the top 53 bits
\* of p, rounded on the bits that follow and on sticky, the mark of a
\* non-zero rest
RoundLimbs(p, sticky, e) ==
  IF \A i \in DOMAIN p : p[i] = 0 THEN DoubleZero ELSE
  LET t == CHOOSE i \in DOMAIN p : p[i] # 0 /\ \A j \in DOMAIN p : j > i => p[j] = 0
      s == 14 * (t - 1) + BitLength(p[t]) - 53
      rest == \/ \E i \in 1..((s - 1) \div 14) : p[i] # 0
              \/ Limb(p, (s - 1) \div 14 + 1) % 2 ^ ((s - 1) % 14) # 0
  IN  RoundNearestEven(ShiftedLimb(p, s, 3) + ShiftedLimb(p, s, 4) * LIMB,
                       ShiftedLimb(p, s, 1) + ShiftedLimb(p, s, 2) * LIMB,
                       ShiftedLimb(p, s - 1, 1) % 2, sticky \/ rest, e + s)

\* the 14-bit limbs of a mantissa
Limbs(x) == <<x.lo % LIMB, x.lo \div LIMB, x.hi % LIMB, x.hi \div LIMB>>
\* the exact product of two mantissas: eight limbs
RECURSIVE Carry(_, _, _)
Carry(cols, k, carry) ==
  IF k > Len(cols) THEN <<carry>>
  ELSE <<(cols[k] + carry) % LIMB>> \o Carry(cols, k + 1, (cols[k] + carry) \div LIMB)
MantissaProduct(a, b) ==
  Carry([k \in 1..7 |->
           LET Term(i) == IF i \in 1..4 /\ k + 1 - i \in 1..4 THEN a[i] * b[k + 1 - i] ELSE 0
           IN  Term(1) + Term(2) + Term(3) + Term(4)], 1, 0)

\* x * y on doubles, correctly rounded
DoubleMul(x, y) ==
  IF x = DoubleZero \/ y = DoubleZero THEN DoubleZero
  ELSE RoundLimbs(MantissaProduct(Limbs(x), Limbs(y)), FALSE, x.e + y.e)

\* the limbs of hi * 2^28 + lo, for lo < 2^31
WordLimbs(hi, lo) ==
  <<lo % LIMB, (lo \div LIMB) % LIMB,
    (hi + lo \div HALF) % LIMB, (hi + lo \div HALF) \div LIMB>>
\* a <= b on multi-word integers of at most n limbs
LimbsLe(a, b, n) ==
  \/ \A i \in 1..n : Limb(a, i) = Limb(b, i)
  \/ \E i \in 1..n : /\ Limb(a, i) < Limb(b, i)
                     /\ \A j \in (i + 1)..n : Limb(a, j) = Limb(b, j)

\* a - b on multi-word integers, a >= b
RECURSIVE Subtract(_, _, _, _)
Subtract(a, b, i, borrow) ==
  IF i > Len(a) THEN <<>>
  ELSE <<(a[i] - Limb(b, i) - borrow + LIMB) % LIMB>>
         \o Subtract(a, b, i + 1, IF a[i] - Limb(b, i) - borrow < 0 THEN 1 ELSE 0)
\* p times the limb v
TimesLimb(p, v) == Carry([i \in DOMAIN p |-> p[i] * v], 1, 0)

\* one step of the division: the quotient limb v = r \div d for r < d * 2^14,
\* from a guess that is never below it, and the remainder r - d * v
RECURSIVE QuotientLimb(_, _, _)
QuotientLimb(r, d, guess) ==
  IF guess >= LIMB THEN QuotientLimb(r, d, LIMB - 1)
  ELSE LET prod == TimesLimb(d, guess)
       IN  IF LimbsLe(prod, r, 5)
           THEN [v |-> guess, r |-> SubSeq(Subtract(r, prod, 1, 0), 1, 4)]
           ELSE QuotientLimb(r, d, guess - 1)

\* schoolbook division by the four-limb d, whose top limb is 2^13 or more:
\* r < d is the remainder so far, and i zero limbs are still to be taken
\* down; the guess at a quotient limb divides the two top limbs by d[4];
\* the quotient limbs come highest first
RECURSIVE LongDivide(_, _, _)
LongDivide(r, d, i) ==
  IF i = 0 THEN [q |-> <<>>, r |-> r]
  ELSE LET step == QuotientLimb(<<0>> \o r, d, (r[4] * LIMB + r[3]) \div d[4])
           low == LongDivide(step.r, d, i - 1)
       IN  [q |-> <<step.v>> \o low.q, r |-> low.r]

\* (n / d) * 2^e as a double, for four-limb n and d with d <= n < 2 * d when
\* first is 1 and n < d when first is 0: first is the top quotient limb
DivideLimbs(n, d, first, e) ==
  LET quot == LongDivide(IF first = 1 THEN Subtract(n, d, 1, 0) ELSE n, d, 4)
  IN  RoundLimbs(<<quot.q[4], quot.q[3], quot.q[2], quot.q[1], first>>,
                 \E i \in 1..4 : quot.r[i] # 0, e)

\* x / y on doubles, y # 0, correctly rounded
\* both mantissas are taken 8-fold, which gives the divisor its top bit
DoubleDiv(x, y) ==
  IF x = DoubleZero THEN DoubleZero
  ELSE IF y.hi < x.hi \/ (y.hi = x.hi /\ y.lo <= x.lo)
  THEN DivideLimbs(WordLimbs(8 * x.hi, 8 * x.lo), WordLimbs(8 * y.hi, 8 * y.lo),
                   1, x.e - y.e - 56)
  ELSE DivideLimbs(WordLimbs(8 * x.hi, 8 * x.lo), WordLimbs(8 * y.hi, 8 * y.lo),
                   0, x.e - y.e - 56)

\* float(n) for an integer 0 <= n < 2^31, which a double holds exactly
DoubleOfInt(n) ==
  IF n = 0 THEN DoubleZero
  ELSE RoundLimbs(<<0, 0, 0, 0, 0>> \o WordLimbs(0, n), FALSE, -70)

\* short division by d < 2^17: the k limbs of r / d below the point, highest
\* first, for r < d, and the remainder they leave
RECURSIVE ShortDivide(_, _, _)
ShortDivide(r, d, k) ==
  IF k = 0 THEN [q |-> <<>>, r |-> r]
  ELSE LET low == ShortDivide((r * LIMB) % d, d, k - 1)
       IN  [q |-> <<(r * LIMB) \div d>> \o low.q, r |-> low.r]

\* the double nearest to the rational q >= 0: the quotient of two integers
\* below 2^31, which doubles hold exactly, rounded once; a denominator below
\* 2^17 is divided by directly, to 84 bits below the point
Double(q) ==
  IF q[2] < 8 * LIMB
  THEN LET frac == ShortDivide(q[1] % q[2], q[2], 6)
       IN  RoundLimbs(<<frac.q[6], frac.q[5], frac.q[4], frac.q[3], frac.q[2], frac.q[1]>>
                        \o WordLimbs(0, q[1] \div q[2]),
                      frac.r # 0, -84)
  ELSE DoubleDiv(DoubleOfInt(q[1]), DoubleOfInt(q[2]))

\* x <= y on non-negative doubles
DoubleLe(x, y) ==
  IF x = DoubleZero THEN TRUE
  ELSE IF y = DoubleZero THEN FALSE
  ELSE IF x.e # y.e THEN x.e < y.e
  ELSE IF x.hi # y.hi THEN x.hi < y.hi
  ELSE x.lo <= y.lo

\* a float that is a multiple of 1/2: the double holds it exactly
HalfInteger(x) == x[2] <= 2

\* x <= y on floats: the order of the doubles, which on exactly held values
\* is the order of the values
FloatLe(x, y) ==
  IF HalfInteger(x) /\ HalfInteger(y) THEN RatLe(x, y)
  ELSE DoubleLe(Double(x), Double(y))

\* x / y on floats, y > 0, as the double it gives: the quotient of the two
\* doubles, which on exactly held values is the quotient of the values,
\* rounded once
FloatDiv(x, y) ==
  IF HalfInteger(x) /\ HalfInteger(y) THEN Double(RatDiv(x, y))
  ELSE DoubleDiv(Double(x), Double(y))

\* min(cold)
RECURSIVE RatMin(_)
RatMin(s) ==
  IF Len(s) = 1 THEN s[1]
  ELSE LET m == RatMin(Tail(s)) IN IF FloatLe(s[1], m) THEN s[1] ELSE m

\* the literal 1.1
ELEVEN_TENTHS == Double(<<11, 10>>)

\* mutation of the threshold: only the minimum itself qualifies
WithinMinOnly(t, cold_min) == RatLe(t, cold_min)
\* threshold = cold_min * 1.1; t <= threshold, in double arithmetic.
\* For multiples of 1/2 the rounded product decides as the exact one does:
\* the double 1.1 lies above 11/10, the product is rounded monotonically
\* and t is a double, so 10 t <= 11 cold_min gives t <= threshold; otherwise
\* t - 1.1 cold_min >= 1/20, far above the rounding error of the product.
WithinThreshold(t, cold_min) ==
  IF HalfInteger(t) /\ HalfInteger(cold_min)
  THEN 10 * t[1] * cold_min[2] <= 11 * cold_min[1] * t[2]
  ELSE DoubleLe(Double(t), DoubleMul(Double(cold_min), ELEVEN_TENTHS))

\* next((i for i, t in enumerate(cold) if t <= threshold), len(cold)), cold non-empty
TimeToOptimal(cold) ==
  LET cold_min == RatMin(cold)
      hits == {i \in 0..(Len(cold) - 1) : WithinThreshold(cold[i + 1], cold_min)}
  IN  IF hits = {} THEN Len(cold)
      ELSE CHOOSE i \in hits : \A j \in hits : i <= j

\* mutation: the warm target is always the last warm iteration
WarmTargetLast(warm) == IF warm # <<>> THEN warm[Len(warm)] ELSE RatOfInt(0)
\* warm[2] if len(warm) > 2 else (warm[-1] if warm else 0)
WarmTarget(warm) ==
  IF Len(warm) > 2 THEN warm[3]
  ELSE IF warm # <<>> THEN warm[Len(warm)] ELSE RatOfInt(0)

\* mutation: a zero cold_optimal is reported as "no speedup", the ratio 1
OptimalSpeedupOne(cold, cold_optimal) ==
  IF cold = <<>> THEN RatOfInt(0)
  ELSE IF RatPos(cold_optimal)
       THEN FloatDiv(cold[1], cold_optimal) ELSE RatOfInt(1)
\* cold[0] / cold_optimal if cold_optimal > 0 else 0, and 0 for an empty curve.
\* cold_optimal is the float statistics.mean returned, the double nearest to
\* the exact mean, and the quotient by it is rounded again: the result is
\* held as the double itself; the literal 0 stays the integer 0.
OptimalSpeedup(cold, cold_optimal) ==
  IF cold # <<>> /\ RatPos(cold_optimal)
  THEN FloatDiv(cold[1], cold_optimal) ELSE RatOfInt(0)

\* cold[0] / warm_target if cold and warm_target > 0 else 0
OurImprovement(cold, warm_target) ==
  IF cold # <<>> /\ RatPos(warm_target)
  THEN RatDiv(cold[1], warm_target) ELSE RatOfInt(0)

\* mutation: the ratios start at the second cold iteration
ClosenessRatioFromSecond(cold, warm_target) ==
  IF RatPos(warm_target) /\ cold # <<>>
  THEN [i \in 1..(Len(cold) - 1) |-> RatDiv(cold[i + 1], warm_target)]
  ELSE <<>>
\* [c / warm_target for c in cold] if warm_target > 0 and cold else []
ClosenessRatio(cold, warm_target) ==
  IF RatPos(warm_target) /\ cold # <<>>
  THEN [i \in 1..Len(cold) |-> RatDiv(cold[i], warm_target)]
  ELSE <<>>

\* statistics.median(compile_times) if compile_times else -1
CompileTimeMedian(compile_times) ==
  IF compile_times # <<>> THEN median(compile_times) ELSE RatOfInt(-1)

\* the MetricsRecord m of one benchmark
BenchMetrics(data) ==
  LET cold == median_across_trials(data.cold)
      warm == median_across_trials(data.warm)
      compile_times == PresentCompileTimes(data.compile_times)
      cold_optimal == IF cold # <<>> THEN mean(ColdTail(cold)) ELSE RatOfInt(0)
      warm_target == WarmTarget(warm)
  IN  [cold_optimal |-> cold_optimal,
       optimal_speedup |-> OptimalSpeedup(cold, cold_optimal),
       cold_time_to_optimal |->
         IF cold # <<>> THEN TimeToOptimal(cold) ELSE -1,
       warm_target |-> warm_target,
       our_improvement |-> OurImprovement(cold, warm_target),
       closeness_ratio |-> ClosenessRatio(cold, warm_target),
       compile_time_median |-> CompileTimeMedian(compile_times),
       cold_curve |-> cold,
       warm_curve |-> warm]

\* compute_metrics: one record per key of all_results
compute_metrics(results) == [bench \in DOMAIN results |-> BenchMetrics(results[bench])]


(***************************************************************************)
(* src/runner.py: run_benchmarks                                           *)
(***************************************************************************)
\* invocations of run_benchmarks
Runs == {1, 2}
\* the output_dir argument, the same for every invocation
OutputDir == "results"
\* the benchmarks argument
BenchmarkLists == {<<>>, <<"a">>, <<"a", "b">>, <<"a", "a">>}

\* what an adapter call can return (suites/base.py RunResult): a run whose
\* output held no latency and no compile time, and a run that printed two
\* latencies and a compile time and then exited with a non-zero code
RunResults ==
  {[iteration_times |-> <<>>, compile_time |-> ABSENT, exit_code |-> 0],
   [iteration_times |-> <<12, 10>>, compile_time |-> 5, exit_code |-> 1]}

VARIABLES
  clock,        \* datetime.now(), in seconds
  dirs,         \* directories that exist
  files,        \* the files that exist: path -> content
  pc,           \* pc[r]: where invocation r stands
  benchmarks,   \* benchmarks[r], trials[r]: the arguments of invocation r
  trials,
  ts,           \* ts[r]: the timestamp read at line 21, -1 before
  bi,           \* bi[r]: position of the `for bench` loop in benchmarks[r], from 1
  trial,        \* trial[r]: the `for trial` loop variable
  bench_data,   \* bench_data[r]
  all_results,  \* all_results[r]
  metrics,      \* metrics[r]
  events,       \* events[r]: adapter calls, returns and artifact checks so far
  arg,          \* compute_metrics called on its own: the argument,
  result,       \* the returned map,
  mpc,          \* and whether it has returned
  cli           \* main() of run.py: its position, arguments and environment

vars == <<clock, dirs, files, pc, benchmarks, trials, ts, bi, trial, bench_data,
          all_results, metrics, events, arg, result, mpc, cli>>

Put(f, k, v) == [x \in (DOMAIN f) \cup {k} |-> IF x = k THEN v ELSE f[x]]
Append1(f, key, v) == [f EXCEPT ![key] = Append(@, v)]

\* run_dir = Path(output_dir) / ts
RunDir(t) == <<OutputDir, t>>
\* run_dir / "raw" / f"{bench}_trial{trial}.mdox"
ProfilePath(t, bench, tr) == <<OutputDir, t, "raw", bench, tr, "mdox">>
\* raw_dir / f"{bench}_trial{trial}_{mode}.log"
LogPath(t, bench, tr, mode) == <<OutputDir, t, "raw", bench, tr, mode>>
\* run_dir / "metrics.json"
MetricsPath(t) == <<OutputDir, t, "metrics.json">>

\* _save_log: the log's text has no influence on the run and is left out
save_log(fs, path) == Put(fs, path, "log")

bench_of(r) == benchmarks[r][bi[r]]
profile_path(r) == ProfilePath(ts[r], bench_of(r), trial[r])

\* bench_data = {"cold": [], "warm": [], "compile_times": []}
EmptyBenchData == [cold |-> <<>>, warm |-> <<>>, compile_times |-> <<>>]

\* the place of a call, a return or the artifact check inside its trial
Phase(op, ev) ==
  CASE op = "run_cold" /\ ev = "call" -> 1
    [] op = "run_cold" -> 2
    [] op = "run_profiling" /\ ev = "call" -> 3
    [] op = "run_profiling" -> 4
    [] op = "check" -> 5
    [] op = "run_warm" /\ ev = "call" -> 6
    [] op = "run_warm" -> 7
    [] OTHER -> 8

\* an entry of the history events[r]: the loop position it happened at, the
\* path handed to the adapter, the sequence a call returned, and, on a call of
\* run_profiling, whether its process has written the artifact
Event(r, op, ev, path, val) ==
  [op |-> op, ev |-> ev, phase |-> Phase(op, ev), bi |-> bi[r], trial |-> trial[r],
   path |-> path, val |-> val, wrote |-> FALSE]

\* lines 21-26
Start(r) ==
  /\ pc[r] = "start"
  /\ ts' = [ts EXCEPT ![r] = clock]
  /\ dirs' = dirs \cup {RunDir(clock), RunDir(clock) \o <<"raw">>}
  /\ all_results' = [all_results EXCEPT ![r] = <<>>]
  /\ bi' = [bi EXCEPT ![r] = 1]
  /\ pc' = [pc EXCEPT ![r] = "bench"]
  /\ UNCHANGED <<clock, files, benchmarks, trials, trial, bench_data, metrics,
                 events, arg, result, mpc, cli>>

\* lines 28-35: the next benchmark of the list
NextBench(r) ==
  /\ pc[r] = "bench"
  /\ bi[r] <= Len(benchmarks[r])
  /\ bench_data' = [bench_data EXCEPT ![r] = EmptyBenchData]
  /\ trial' = [trial EXCEPT ![r] = 0]
  /\ pc' = [pc EXCEPT ![r] = "trial"]
  /\ UNCHANGED <<clock, dirs, files, benchmarks, trials, ts, bi, all_results,
                 metrics, events, arg, result, mpc, cli>>

\* lines 35-42: the next trial; suite.run_cold(bench, bench_iters) is called
\* mutation: the warm run is started first
CallWarmFirst(r) ==
  /\ pc[r] = "trial"
  /\ trial[r] < trials[r]
  /\ events' = [events EXCEPT ![r] = Append(@, Event(r, "run_warm", "call", profile_path(r), <<>>))]
  /\ pc' = [pc EXCEPT ![r] = "warm"]
  /\ UNCHANGED <<clock, dirs, files, benchmarks, trials, ts, bi, trial, bench_data,
                 all_results, metrics, arg, result, mpc, cli>>

CallCold(r) ==
  /\ pc[r] = "trial"
  /\ trial[r] < trials[r]
  /\ events' = [events EXCEPT ![r] = Append(@, Event(r, "run_cold", "call", <<>>, <<>>))]
  /\ pc' = [pc EXCEPT ![r] = "cold"]
  /\ UNCHANGED <<clock, dirs, files, benchmarks, trials, ts, bi, trial, bench_data,
                 all_results, metrics, arg, result, mpc, cli>>

\* bench_data["cold"].append(cold.iteration_times)
\* mutation: the sequence of a failed run (non-zero exit code) is dropped
RecordColdOkOnly(data, cold) ==
  Append1(data, "cold", IF cold.exit_code = 0 THEN cold.iteration_times ELSE <<>>)
RecordCold(data, cold) == Append1(data, "cold", cold.iteration_times)

\* lines 42-45: run_cold returns
ColdReturns(r) ==
  /\ pc[r] = "cold"
  /\ \E cold \in RunResults :
       /\ files' = save_log(files, LogPath(ts[r], bench_of(r), trial[r], "cold.log"))
       /\ bench_data' = [bench_data EXCEPT ![r] = RecordCold(@, cold)]
       /\ events' = [events EXCEPT ![r] =
            Append(@, Event(r, "run_cold", "return", <<>>, cold.iteration_times))]
  /\ pc' = [pc EXCEPT ![r] = "after_cold"]
  /\ UNCHANGED <<clock, dirs, benchmarks, trials, ts, bi, trial, all_results,
                 metrics, arg, result, mpc, cli>>

\* lines 47-49: suite.run_profiling(bench, profile_iters, profile_path) is called
CallProfiling(r) ==
  /\ pc[r] = "after_cold"
  /\ events' = [events EXCEPT ![r] =
                  Append(@, Event(r, "run_profiling", "call", profile_path(r), <<>>))]
  /\ pc' = [pc EXCEPT ![r] = "prof"]
  /\ UNCHANGED <<clock, dirs, files, benchmarks, trials, ts, bi, trial, bench_data,
                 all_results, metrics, arg, result, mpc, cli>>

\* the profiling process writes the artifact at the path it was given
WriteArtifact(fs, path) == Put(fs, path, "mdox")

\* line 49, inside run_profiling: while subprocess.run waits for it, the
\* profiling process writes the artifact; the file is there for everyone from
\* then on, before run_profiling returns or raises. A process may also end
\* without having written it.
ProfilingWrites(r) ==
  /\ pc[r] = "prof"
  /\ ~events[r][Len(events[r])].wrote
  /\ files' = WriteArtifact(files, profile_path(r))
  /\ events' = [events EXCEPT ![r][Len(events[r])].wrote = TRUE]
  /\ UNCHANGED <<clock, dirs, pc, benchmarks, trials, ts, bi, trial, bench_data,
                 all_results, metrics, arg, result, mpc, cli>>

\* lines 49-51: run_profiling returns
ProfilingReturns(r) ==
  /\ pc[r] = "prof"
  /\ \E prof \in RunResults :
       /\ files' = save_log(files, LogPath(ts[r], bench_of(r), trial[r], "profile.log"))
       /\ events' = [events EXCEPT ![r] =
            Append(@, Event(r, "run_profiling",
                            IF events[r][Len(events[r])].wrote
                            THEN "return_wrote" ELSE "return", profile_path(r), <<>>))]
  /\ pc' = [pc EXCEPT ![r] = "check"]
  /\ UNCHANGED <<clock, dirs, benchmarks, trials, ts, bi, trial, bench_data,
                 all_results, metrics, arg, result, mpc, cli>>

\* Path(profile_path).exists()
ArtifactExists(r) == profile_path(r) \in DOMAIN files

\* mutation: the missing trial records an empty warm sequence and no compile time
RecordMissingWarmOnly(data) == Append1(data, "warm", <<>>)
\* lines 55-56: what a trial with a missing artifact records
\* mutation: a zero compile time is recorded instead of the absent value
RecordMissingZero(data) ==
  Append1(Append1(data, "warm", <<>>), "compile_times", 0)
RecordMissing(data) ==
  Append1(Append1(data, "warm", <<>>), "compile_times", ABSENT)

\* lines 53-57: the artifact is missing; the trial ends without a warm run
ArtifactMissing(r) ==
  /\ pc[r] = "check"
  /\ ~ArtifactExists(r)
  /\ bench_data' = [bench_data EXCEPT ![r] = RecordMissing(@)]
  /\ events' = [events EXCEPT ![r] = Append(@, Event(r, "check", "missing", profile_path(r), <<>>))]
  /\ trial' = [trial EXCEPT ![r] = @ + 1]
  /\ pc' = [pc EXCEPT ![r] = "trial"]
  /\ UNCHANGED <<clock, dirs, files, benchmarks, trials, ts, bi, all_results,
                 metrics, arg, result, mpc, cli>>

\* lines 53, 59-61: the artifact exists; suite.run_warm(bench, bench_iters,
\* profile_path) is called
CallWarm(r) ==
  /\ pc[r] = "check"
  /\ ArtifactExists(r)
  /\ events' = [events EXCEPT ![r] =
        Append(Append(@, Event(r, "check", "exists", profile_path(r), <<>>)),
               Event(r, "run_warm", "call", profile_path(r), <<>>))]
  /\ pc' = [pc EXCEPT ![r] = "warm"]
  /\ UNCHANGED <<clock, dirs, files, benchmarks, trials, ts, bi, trial, bench_data,
                 all_results, metrics, arg, result, mpc, cli>>

\* lines 63-64
RecordWarm(data, warm) ==
  Append1(Append1(data, "warm", warm.iteration_times), "compile_times", warm.compile_time)

\* lines 61-65: run_warm returns; the trial ends
WarmReturns(r) ==
  /\ pc[r] = "warm"
  /\ \E warm \in RunResults :
       /\ files' = save_log(files, LogPath(ts[r], bench_of(r), trial[r], "warm.log"))
       /\ bench_data' = [bench_data EXCEPT ![r] = RecordWarm(@, warm)]
       /\ events' = [events EXCEPT ![r] =
            Append(@, Event(r, "run_warm", "return", profile_path(r), warm.iteration_times))]
  /\ trial' = [trial EXCEPT ![r] = @ + 1]
  /\ pc' = [pc EXCEPT ![r] = "trial"]
  /\ UNCHANGED <<clock, dirs, benchmarks, trials, ts, bi, all_results,
                 metrics, arg, result, mpc, cli>>

\* subprocess.run raises inside an adapter call (launch failure, TimeoutExpired);
\* run_benchmarks has no try/except, so the exception leaves it
\* mutation: the exception is swallowed and the trial loop goes on
AdapterRaisesCaught(r) ==
  /\ pc[r] \in {"cold", "prof", "warm"}
  /\ events' = [events EXCEPT ![r] = Append(@, Event(r, "adapter", "raise", <<>>, <<>>))]
  /\ trial' = [trial EXCEPT ![r] = @ + 1]
  /\ pc' = [pc EXCEPT ![r] = "trial"]
  /\ UNCHANGED <<clock, dirs, files, benchmarks, trials, ts, bi, bench_data,
                 all_results, metrics, arg, result, mpc, cli>>

AdapterRaises(r) ==
  /\ pc[r] \in {"cold", "prof", "warm"}
  /\ events' = [events EXCEPT ![r] = Append(@, Event(r, "adapter", "raise", <<>>, <<>>))]
  /\ pc' = [pc EXCEPT ![r] = "raised"]
  /\ UNCHANGED <<clock, dirs, files, benchmarks, trials, ts, bi, trial, bench_data,
                 all_results, metrics, arg, result, mpc, cli>>

\* all_results[bench] = bench_data
\* mutation: a benchmark without a single parsed cold latency is left out
StoreResultsNonEmpty(results, bench, data) ==
  IF \A k \in DOMAIN data.cold : data.cold[k] = <<>> THEN results
  ELSE Put(results, bench, data)
StoreResults(results, bench, data) == Put(results, bench, data)

\* line 67, after the last trial of a benchmark
EndBench(r) ==
  /\ pc[r] = "trial"
  /\ trial[r] >= trials[r]
  /\ all_results' = [all_results EXCEPT ![r] = StoreResults(@, bench_of(r), bench_data[r])]
  /\ bi' = [bi EXCEPT ![r] = @ + 1]
  /\ pc' = [pc EXCEPT ![r] = "bench"]
  /\ UNCHANGED <<clock, dirs, files, benchmarks, trials, ts, trial, bench_data,
                 metrics, events, arg, result, mpc, cli>>

\* The content of metrics.json is a sequence of texts: <<>> is the empty
\* file, <<m>> the JSON text of the map m, and <<m, n>> the text of m followed
\* by the end of a longer text of n that the file held before.
\* What the file can hold once the text of m has been written at its start
\* over content: the text alone, or, when another text was there, the text
\* and what of the other lies beyond it. Which of the two it is depends on
\* the lengths of the texts, that is on the digits of the floats, which the
\* model leaves open. A text stays in Python's buffer until the file is
\* closed and below the buffer size of 8192 bytes reaches the file in one
\* write.
WriteAtStart(content, m) ==
  {<<m>>} \cup (IF content \in {<<>>, <<m>>} THEN {} ELSE {<<m>> \o content})

\* lines 69-73: after the last benchmark the metrics are computed and
\* open(metrics_path, "w") creates metrics.json or empties it
OpenMetrics(r) ==
  /\ pc[r] = "bench"
  /\ bi[r] > Len(benchmarks[r])
  /\ metrics' = [metrics EXCEPT ![r] = compute_metrics(all_results[r])]
  /\ files' = Put(files, MetricsPath(ts[r]), <<>>)
  /\ pc' = [pc EXCEPT ![r] = "dump"]
  /\ UNCHANGED <<clock, dirs, benchmarks, trials, ts, bi, trial, bench_data,
                 all_results, events, arg, result, mpc, cli>>

\* lines 74-77: json.dump and the end of the with block write the text from
\* the start of the file, whatever another invocation has put there since
\* the open, and run_benchmarks returns
Finish(r) ==
  /\ pc[r] = "dump"
  /\ \E content \in WriteAtStart(files[MetricsPath(ts[r])], metrics[r]) :
       files' = Put(files, MetricsPath(ts[r]), content)
  /\ pc' = [pc EXCEPT ![r] = "done"]
  /\ UNCHANGED <<clock, dirs, benchmarks, trials, ts, bi, trial, bench_data,
                 all_results, metrics, events, arg, result, mpc, cli>>

\* graphs_dir / "<name>.png"
GraphPath(t, name) == <<OutputDir, t, "graphs", name>>
\* the plots generate_graphs writes for the metrics map ms: none when no
\* benchmark has a cold curve; summary_improvement.png only when some
\* benchmark with a cold curve has our_improvement > 0
GraphNames(ms) ==
  LET bs == {b \in DOMAIN ms : ms[b].cold_curve # <<>>}
  IN  IF bs = {} THEN {}
      ELSE {"convergence.png", "cold_vs_warm.png", "closeness_ratio.png"}
             \cup (IF \E b \in bs : RatPos(ms[b].our_improvement)
                   THEN {"summary_improvement.png"} ELSE {})
\* the files after the plots have been saved; a plot's content is left out
SaveGraphs(fs, t, names) ==
  [x \in (DOMAIN fs) \cup {GraphPath(t, n) : n \in names} |->
     IF x \in {GraphPath(t, n) : n \in names} THEN "png" ELSE fs[x]]

\* generate_graphs(result["metrics"], result["run_dir"]), called by whoever
\* called run_benchmarks once it has returned: the graphs directory is made,
\* also when there is nothing to plot, and the plots are saved in it
GenerateGraphs(r) ==
  /\ pc[r] = "done"
  /\ dirs' = dirs \cup {RunDir(ts[r]) \o <<"graphs">>}
  /\ files' = SaveGraphs(files, ts[r], GraphNames(metrics[r]))
  /\ pc' = [pc EXCEPT ![r] = "graphs"]
  /\ UNCHANGED <<clock, benchmarks, trials, ts, bi, trial, bench_data,
                 all_results, metrics, events, arg, result, mpc, cli>>

\* one step of invocation r
Step(r) ==
  \/ Start(r)
  \/ NextBench(r)
  \/ CallCold(r)
  \/ ColdReturns(r)
  \/ CallProfiling(r)
  \/ ProfilingWrites(r)
  \/ ProfilingReturns(r)
  \/ ArtifactMissing(r)
  \/ CallWarm(r)
  \/ WarmReturns(r)
  \/ AdapterRaises(r)
  \/ EndBench(r)
  \/ OpenMetrics(r)
  \/ Finish(r)
  \/ GenerateGraphs(r)

\* a second passes
Tick ==
  /\ clock < MaxClock
  /\ clock' = clock + 1
  /\ UNCHANGED <<dirs, files, pc, benchmarks, trials, ts, bi, trial, bench_data,
                 all_results, metrics, events, arg, result, mpc, cli>>

\* the state before anything has run
Idle ==
  /\ dirs = {}
  /\ files = <<>>
  /\ ts = [r \in Runs |-> -1]
  /\ bi = [r \in Runs |-> 0]
  /\ trial = [r \in Runs |-> 0]
  /\ bench_data = [r \in Runs |-> EmptyBenchData]
  /\ all_results = [r \in Runs |-> <<>>]
  /\ metrics = [r \in Runs |-> <<>>]
  /\ events = [r \in Runs |-> <<>>]

NoMetricsCall == arg = <<>> /\ result = <<>> /\ mpc = "off"

\* the command-line options of run.py
NoArgs ==
  [suite |-> "dacapo", benchmarks |-> <<>>, trials |-> 0, java |-> FALSE,
   jar |-> FALSE, no_graphs |-> FALSE, cold_only |-> FALSE]
\* python run.py has been started with command line args on machine env;
\* nothing of run.py has been executed
CliStart(env, args) ==
  [pc |-> "import", env |-> env, args |-> args, benchmarks |-> <<>>,
   validated |-> FALSE, available |-> FALSE, exc |-> "none", code |-> 0]
\* run_benchmarks is called from elsewhere than run.py
CliOff ==
  [CliStart([java |-> "ok", jar |-> "ok", detect |-> "undefined"], NoArgs)
     EXCEPT !.pc = "off"]

\* one invocation of run_benchmarks, with any benchmarks list and trial count
Init ==
  /\ Idle
  /\ NoMetricsCall
  /\ cli = CliOff
  /\ clock = 0
  /\ pc = [r \in Runs |-> IF r = 1 THEN "start" ELSE "off"]
  /\ \E bl \in BenchmarkLists : benchmarks = [r \in Runs |-> IF r = 1 THEN bl ELSE <<>>]
  /\ \E n \in 0..MaxTrials : trials = [r \in Runs |-> IF r = 1 THEN n ELSE 0]

Next == \E r \in {1} : Step(r)

Spec == Init /\ [][Next]_vars

\* two invocations with the same output_dir, started at any times
InitConc ==
  /\ Idle
  /\ NoMetricsCall
  /\ cli = CliOff
  /\ clock = 0
  /\ pc = [r \in Runs |-> "start"]
  /\ benchmarks = [r \in Runs |-> <<"a">>]
  /\ trials = [r \in Runs |-> 1]

NextConc == Tick \/ \E r \in Runs : Step(r)

SpecConc == InitConc /\ [][NextConc]_vars

(***************************************************************************)
(* compute_metrics called on its own                                       *)
(***************************************************************************)
\* latencies: a minimum, a value exactly 10% above it, and one beyond that
Latencies == {10, 11, 12}

SeqsUpTo(S, n) == UNION {[1..k -> S] : k \in 0..n}

\* data["cold"]: up to MaxArrays trials of up to MaxLen latencies each
ColdInputs == SeqsUpTo(SeqsUpTo(Latencies, MaxLen), MaxArrays)

\* data["warm"] and data["compile_times"]
WarmInputs ==
  {[warm |-> <<>>, compile_times |-> <<>>],
   [warm |-> << <<>> >>, compile_times |-> <<ABSENT>>],
   [warm |-> << <<60, 55, 50>> >>, compile_times |-> <<5>>],
   [warm |-> << <<60, 55>>, <<50>> >>, compile_times |-> <<0, 7>>]}

\* the inputs the specification works through by hand (section 8)
MedianExample == << <<10, 20, 30>>, <<12>>, <<8, 22>> >>
EndToEndCold == << <<100, 90, 85, 82, 80, 80, 79, 80, 80, 80, 80>> >>
EndToEndWarm == << <<60, 55, 50>> >>

\* latencies of a benchmark that can finish an iteration within the millisecond
ZeroLatencies == {0, 10}
ZeroColdInputs == SeqsUpTo(SeqsUpTo(ZeroLatencies, MaxLen), MaxArrays)

\* further data["warm"] and data["compile_times"]: zero latencies, warm curves
\* of one to four entries, trials of differing lengths, absent and zero
\* compile times
MoreWarmInputs ==
  {[warm |-> << <<0>> >>, compile_times |-> <<0>>],
   [warm |-> << <<60>> >>, compile_times |-> <<ABSENT>>],
   [warm |-> << <<60, 55, 0>>, <<>> >>, compile_times |-> <<5, ABSENT>>],
   [warm |-> << <<60, 55, 50, 45>>, <<70>> >>, compile_times |-> <<ABSENT, 0>>],
   [warm |-> << <<6>>, <<8, 3>>, <<7>> >>, compile_times |-> <<9, ABSENT, 4>>],
   [warm |-> << <<>>, <<>> >>, compile_times |-> <<ABSENT, ABSENT>>]}

MetricsInputs ==
  {[cold |-> c, warm |-> w.warm, compile_times |-> w.compile_times] :
     c \in ColdInputs, w \in WarmInputs}
\* all_results[bench] with latencies of zero
ZeroMetricsInputs ==
  {[cold |-> c, warm |-> w.warm, compile_times |-> w.compile_times] :
     c \in ZeroColdInputs, w \in WarmInputs \cup MoreWarmInputs}
  \cup {[cold |-> MedianExample, warm |-> w.warm, compile_times |-> w.compile_times] :
          w \in WarmInputs}
  \cup {[cold |-> EndToEndCold, warm |-> EndToEndWarm, compile_times |-> <<5>>]}

\* compute_metrics(all_results) returns
ComputeMetrics ==
  /\ mpc = "call"
  /\ result' = compute_metrics(arg)
  /\ mpc' = "returned"
  /\ UNCHANGED <<clock, dirs, files, pc, benchmarks, trials, ts, bi, trial,
                 bench_data, all_results, metrics, events, arg, cli>>

\* compute_metrics is called with one benchmark's accumulation
InitMetrics ==
  /\ Idle
  /\ clock = 0
  /\ pc = [r \in Runs |-> "off"]
  /\ benchmarks = [r \in Runs |-> <<>>]
  /\ trials = [r \in Runs |-> 0]
  /\ \/ \E d \in MetricsInputs : arg = [b \in {"a"} |-> d]
     \/ \E d \in ZeroMetricsInputs : arg = [b \in {"a"} |-> d]
  /\ result = <<>>
  /\ mpc = "call"
  /\ cli = CliOff

NextMetrics == ComputeMetrics

SpecMetrics == InitMetrics /\ [][NextMetrics]_vars

-----------------------------------------------------------------------------
\* main() of run.py

\* KNOWN_BENCHMARKS: what DaCapoSuite.available_benchmarks() returns, and
\* RenaissanceSuite.available_benchmarks() when the jar's list cannot be had
Available == <<"a", "b">>
\* what one call of RenaissanceSuite.available_benchmarks() can return: the
\* names the jar prints on --raw-list, or the static list
RawLists == {Available, <<"a">>, <<"a", "b", "zz">>}
\* the lists one call of suite.available_benchmarks() can return
AvailableBenchmarks(suite) == IF suite = "renaissance" THEN RawLists ELSE {Available}
\* the suite names argparse accepts: the keys of SUITES
SuiteChoices == {"dacapo", "renaissance"}
\* what the command line can hold; "specjvm" is a suite name that is no choice,
\* "zz" a benchmark the suite does not have
CliArgs ==
  [suite : SuiteChoices \cup {"specjvm"},
   benchmarks : BenchmarkLists \cup {<<"a", "zz">>},
   trials : 0..MaxTrials,
   java : BOOLEAN,
   jar : BOOLEAN,
   no_graphs : BOOLEAN,
   cold_only : BOOLEAN]
\* the machine: the java binary (the given one, or the one detect_java would
\* find) is missing, exits non-zero on -version, hangs on it, or works; the
\* suite jar (the given one, or the one detection would find) is missing or
\* there; config.py is the one of the source tree, which does not define
\* detect_renaissance_jar, or one that defines it
CliEnvs ==
  [java : {"missing", "broken", "hangs", "ok"}, jar : {"missing", "ok"},
   detect : {"undefined", "defined"}]

\* detect_renaissance_jar() of a config.py that defines it: the jar it finds,
\* or FileNotFoundError, as detect_jar() does for the DaCapo jar
detect_renaissance_jar(env) == IF env.jar = "ok" THEN "found" ELSE "FileNotFoundError"

\* the parameters of run_benchmarks; none has a default, there is no **kwargs
RunBenchmarksParameters ==
  {"suite", "benchmarks", "profile_iters", "bench_iters", "trials", "output_dir"}
\* the keyword arguments main() passes
MainKeywords ==
  {"suite", "benchmarks", "profile_iters", "bench_iters", "trials", "output_dir",
   "cold_only"}
\* a call with keyword arguments only binds when every keyword is a parameter
\* and every parameter without default is given
Binds(keywords, parameters) == keywords \subseteq parameters /\ parameters \subseteq keywords

\* main() stops with an exception
MainRaises(c, exc) == [c EXCEPT !.pc = "raised", !.exc = exc]
\* main() stops in sys.exit(code)
MainExits(c, code) == [c EXCEPT !.pc = "exit", !.exc = "SystemExit", !.code = code]

\* lines 7-15: the imports of run.py. `from runner import run_benchmarks`
\* imports suites, whose renaissance module has `from config import
\* BASE_JVM_ARGS, detect_renaissance_jar`: with the config.py of the source
\* tree this raises ImportError, and main() is never entered
ImportModules ==
  /\ cli.pc = "import"
  /\ cli' = IF cli.env.detect = "defined" THEN [cli EXCEPT !.pc = "main"]
            ELSE MainRaises(cli, "ImportError")
  /\ UNCHANGED <<clock, dirs, files, pc, benchmarks, trials, ts, bi, trial,
                 bench_data, all_results, metrics, events, arg, result, mpc>>

\* lines 19-37: parser.parse_args(); a suite that is no choice is an argparse
\* error, exit status 2
ParseArgs ==
  /\ cli.pc = "main"
  /\ cli' = IF cli.args.suite \in SuiteChoices
            THEN [cli EXCEPT !.pc = "paths"]
            ELSE MainExits(cli, 2)
  /\ UNCHANGED <<clock, dirs, files, pc, benchmarks, trials, ts, bi, trial,
                 bench_data, all_results, metrics, events, arg, result, mpc>>

\* lines 40-42: args.java or detect_java(); args.jar or suite_cls.detect_jar().
\* detect_java raises FileNotFoundError when it finds none; detect_jar of the
\* DaCapo adapter is the base class's and always raises, that of the Renaissance
\* adapter is detect_renaissance_jar()
ResolvePaths ==
  /\ cli.pc = "paths"
  /\ LET java_found == cli.args.java \/ cli.env.java # "missing"
         jar_found == \/ cli.args.jar
                      \/ /\ cli.args.suite = "renaissance"
                         /\ detect_renaissance_jar(cli.env) = "found"
     IN  cli' = IF java_found /\ jar_found
                THEN [cli EXCEPT !.pc = "validate"]
                ELSE MainRaises(cli, "FileNotFoundError")
  /\ UNCHANGED <<clock, dirs, files, pc, benchmarks, trials, ts, bi, trial,
                 bench_data, all_results, metrics, events, arg, result, mpc>>

\* lines 48-49: suite.validate_setup()
ValidateSetup ==
  /\ cli.pc = "validate"
  /\ cli' = CASE cli.env.java = "missing" -> MainRaises(cli, "FileNotFoundError")
              [] cli.env.java # "missing" /\ cli.env.jar = "missing" ->
                   MainRaises(cli, "FileNotFoundError")
              [] cli.env.java = "hangs" /\ cli.env.jar = "ok" ->
                   MainRaises(cli, "TimeoutExpired")
              [] cli.env.java = "broken" /\ cli.env.jar = "ok" ->
                   MainRaises(cli, "RuntimeError")
              [] cli.env.java = "ok" /\ cli.env.jar = "ok" ->
                   [cli EXCEPT !.pc = "resolve", !.validated = TRUE]
  /\ UNCHANGED <<clock, dirs, files, pc, benchmarks, trials, ts, bi, trial,
                 bench_data, all_results, metrics, events, arg, result, mpc>>

\* lines 52-57: the benchmarks to run; an unknown name ends main() in
\* sys.exit(1). available_benchmarks() is called once for the default list
\* (only when no names were given) and once more for the check; the two calls
\* of the Renaissance adapter can return different lists
ResolveBenchmarks ==
  /\ cli.pc = "resolve"
  /\ \E first, available \in AvailableBenchmarks(cli.args.suite) :
       LET requested == IF cli.args.benchmarks # <<>> THEN cli.args.benchmarks
                        ELSE first
           known == {available[k] : k \in DOMAIN available}
       IN  cli' = IF \A k \in DOMAIN requested : requested[k] \in known
                  THEN [cli EXCEPT !.pc = "run", !.benchmarks = requested,
                                   !.available = TRUE]
                  ELSE MainExits([cli EXCEPT !.benchmarks = requested], 1)
  /\ UNCHANGED <<clock, dirs, files, pc, benchmarks, trials, ts, bi, trial,
                 bench_data, all_results, metrics, events, arg, result, mpc>>

\* lines 64-72: run_benchmarks(suite=..., ..., cold_only=args.cold_only). When
\* the keywords bind, invocation 1 of run_benchmarks starts with main()'s
\* benchmarks and trials; otherwise the call raises TypeError before the body
\* of run_benchmarks is entered. Lines 75-78, generate_graphs unless
\* --no-graphs, follow a call that has returned: GenerateGraphs.
CallRunBenchmarks ==
  /\ cli.pc = "run"
  /\ IF Binds(MainKeywords, RunBenchmarksParameters)
     THEN /\ cli' = [cli EXCEPT !.pc = "running"]
          /\ pc' = [pc EXCEPT ![1] = "start"]
          /\ benchmarks' = [benchmarks EXCEPT ![1] = cli.benchmarks]
          /\ trials' = [trials EXCEPT ![1] = cli.args.trials]
     ELSE /\ cli' = MainRaises(cli, "TypeError")
          /\ UNCHANGED <<pc, benchmarks, trials>>
  /\ UNCHANGED <<clock, dirs, files, ts, bi, trial, bench_data, all_results,
                 metrics, events, arg, result, mpc>>

\* python run.py <suite> [benchmarks] [options] on any machine
InitMain ==
  /\ Idle
  /\ NoMetricsCall
  /\ clock = 0
  /\ pc = [r \in Runs |-> "off"]
  /\ benchmarks = [r \in Runs |-> <<>>]
  /\ trials = [r \in Runs |-> 0]
  /\ \E env \in CliEnvs, a \in CliArgs : cli = CliStart(env, a)

NextMain ==
  \/ ImportModules
  \/ ParseArgs
  \/ ResolvePaths
  \/ ValidateSetup
  \/ ResolveBenchmarks
  \/ CallRunBenchmarks

SpecMain == InitMain /\ [][NextMain]_vars

(***************************************************************************)
(* Properties of run_benchmarks (specification Spec, invocation 1)         *)
(***************************************************************************)
E == events[1]

IsCall(e, op) == e.op = op /\ e.ev = "call"
IsReturn(e, op) == e.op = op /\ e.ev \in {"return", "return_wrote"}
SameTrial(e, f) == e.bi = f.bi /\ e.trial = f.trial

\* e comes before f in the order benchmark entry, trial, step of the trial
Before(e, f) ==
  \/ e.bi < f.bi
  \/ e.bi = f.bi /\ e.trial < f.trial
  \/ e.bi = f.bi /\ e.trial = f.trial /\ e.phase < f.phase

Count(op, b, t) ==
  Cardinality({i \in DOMAIN E : IsCall(E[i], op) /\ E[i].bi = b /\ E[i].trial = t})

Missed(b, t) ==
  \E i \in DOMAIN E : E[i].ev = "missing" /\ E[i].bi = b /\ E[i].trial = t

\* C1: when the artifact file at the trial's profile path does not exist once
\* run_profiling has returned, the trial records the empty warm sequence and
\* the absent compile time (-1), run_warm is not called for that trial, and
\* the loop goes on with the next trial or benchmark.
C1_MissingArtifact ==
  /\ [](\A i \in DOMAIN E :
          E[i].ev = "missing" =>
            /\ Count("run_warm", E[i].bi, E[i].trial) = 0
            /\ pc[1] # "raised" => i = Len(E) \/ IsCall(E[i + 1], "run_cold")
            /\ i = Len(E) => pc[1] \in {"trial", "bench", "dump", "done", "graphs"})
  /\ [][(pc[1] = "check" /\ ProfilePath(ts[1], benchmarks[1][bi[1]], trial[1]) \notin DOMAIN files)
          => /\ bench_data'[1].warm = Append(bench_data[1].warm, <<>>)
             /\ bench_data'[1].compile_times = Append(bench_data[1].compile_times, -1)
             /\ bench_data'[1].cold = bench_data[1].cold
             /\ pc'[1] = "trial"
             /\ trial'[1] = trial[1] + 1
             /\ bi'[1] = bi[1]
             /\ \A i \in DOMAIN events'[1] : i > Len(E) => events'[1][i].ev = "missing"]_vars

\* C1 witness: a trial missed its artifact and the next trial's cold run started
C1_Witness ==
  \E i \in DOMAIN E : E[i].ev = "missing" /\ i < Len(E) /\ IsCall(E[i + 1], "run_cold")

\* C2: run_warm is called for a trial only if the profiling step of that same
\* trial wrote the artifact, and no two trials of a run use the same profile
\* path, also when the benchmarks list names a benchmark twice.
C2_OwnArtifact ==
  /\ \A i \in DOMAIN E :
       IsCall(E[i], "run_warm") =>
         \E j \in 1..(i - 1) :
           E[j].op = "run_profiling" /\ E[j].ev = "return_wrote" /\ SameTrial(E[j], E[i])
  /\ \A i, j \in DOMAIN E :
       (IsCall(E[i], "run_profiling") /\ IsCall(E[j], "run_profiling") /\ i # j)
         => E[i].path # E[j].path

\* C3: adapter calls are strictly sequential: at most one is in flight; every
\* event follows its predecessor in the order benchmark entry, trial, step
\* (cold, profiling, artifact check, warm); run_warm is called right after a
\* successful check of the path its own trial's profiling run was given.
C3_Sequential ==
  /\ (pc[1] \in {"cold", "prof", "warm"}) <=> (E # <<>> /\ E[Len(E)].ev = "call")
  /\ \A i \in DOMAIN E :
       /\ i < Len(E) => Before(E[i], E[i + 1])
       /\ (E[i].ev = "call" /\ i < Len(E)) =>
            /\ SameTrial(E[i], E[i + 1])
            /\ IsReturn(E[i + 1], E[i].op) \/ E[i + 1].ev = "raise"
       /\ IsCall(E[i], "run_warm") =>
            /\ i >= 3
            /\ E[i - 1].ev = "exists" /\ E[i - 1].path = E[i].path
            /\ SameTrial(E[i - 1], E[i])
            /\ IsReturn(E[i - 2], "run_profiling") /\ E[i - 2].path = E[i].path
            /\ SameTrial(E[i - 2], E[i])

\* C3 witness: a warm run of the second trial of the second benchmark returned
C3_Witness ==
  \E i \in DOMAIN E : IsReturn(E[i], "run_warm") /\ E[i].bi = 2 /\ E[i].trial = 1

\* C4: an exception of an adapter call leaves run_benchmarks: it is the last
\* thing the run does, no adapter call follows, no metrics are computed and
\* metrics.json is not written.
C4_RaisePropagates ==
  /\ \A i \in DOMAIN E : E[i].ev = "raise" => i = Len(E) /\ pc[1] = "raised"
  /\ pc[1] = "raised" =>
       /\ E # <<>> /\ E[Len(E)].ev = "raise"
       /\ metrics[1] = <<>>
       /\ MetricsPath(ts[1]) \notin DOMAIN files
       /\ ~ENABLED Next

\* C4 witness: a warm run raised after an earlier trial had completed
C4_Witness ==
  /\ pc[1] = "raised"
  /\ Len(E) >= 2
  /\ IsCall(E[Len(E) - 1], "run_warm")
  /\ E[Len(E)].trial = 1

\* C6: in a completed run every benchmark entry and trial has exactly one
\* run_cold call, exactly one run_profiling call and at most one run_warm
\* call, none exactly when the artifact was missing; the cold sequences
\* recorded are the ones those run_cold calls returned.
C6_NoRetries ==
  pc[1] \in {"done", "graphs"} =>
    /\ \A b \in DOMAIN benchmarks[1] : \A t \in 0..(trials[1] - 1) :
         /\ Count("run_cold", b, t) = 1
         /\ Count("run_profiling", b, t) = 1
         /\ Count("run_warm", b, t) <= 1
         /\ Count("run_warm", b, t) = 0 <=> Missed(b, t)
    /\ \A i \in DOMAIN E : E[i].bi \in DOMAIN benchmarks[1] /\ E[i].trial \in 0..(trials[1] - 1)
    /\ \A b \in DOMAIN benchmarks[1] :
         (\A c \in DOMAIN benchmarks[1] : benchmarks[1][c] = benchmarks[1][b] => c <= b)
           => /\ Len(all_results[1][benchmarks[1][b]].cold) = trials[1]
              /\ \A t \in 0..(trials[1] - 1) :
                   \E i \in DOMAIN E :
                     /\ IsReturn(E[i], "run_cold") /\ E[i].bi = b /\ E[i].trial = t
                     /\ all_results[1][benchmarks[1][b]].cold[t + 1] = E[i].val

\* C6 witness: a completed run in which a cold run returned latencies and the
\* artifact of a trial was missing
C6_Witness ==
  /\ pc[1] = "done"
  /\ \E i \in DOMAIN E : IsReturn(E[i], "run_cold") /\ E[i].val # <<>>
  /\ \E i \in DOMAIN E : E[i].ev = "missing"

MetricsFields ==
  {"cold_optimal", "optimal_speedup", "cold_time_to_optimal", "warm_target",
   "our_improvement", "closeness_ratio", "compile_time_median", "cold_curve",
   "warm_curve"}

AllEmpty(arrays) == \A k \in DOMAIN arrays : arrays[k] = <<>>

\* C7: after a completed run the metrics map, and metrics.json, hold a record
\* with every field for every requested benchmark name; a benchmark without
\* cold data has the cold sentinels, one without warm data the warm ones, also
\* with trials = 0.
C7_RecordForEveryBenchmark ==
  /\ pc[1] = "bench" => bi[1] \in 1..(Len(benchmarks[1]) + 1)
  /\ pc[1] \in {"done", "graphs"} =>
       /\ DOMAIN metrics[1] = {benchmarks[1][i] : i \in DOMAIN benchmarks[1]}
       /\ MetricsPath(ts[1]) \in DOMAIN files
       /\ files[MetricsPath(ts[1])] = <<metrics[1]>>
       /\ \A b \in DOMAIN metrics[1] :
            LET m == metrics[1][b]
                d == all_results[1][b]
            IN  /\ DOMAIN m = MetricsFields
                /\ AllEmpty(d.cold) =>
                     /\ m.cold_curve = <<>>
                     /\ m.cold_optimal = <<0, 1>>
                     /\ m.optimal_speedup = <<0, 1>>
                     /\ m.cold_time_to_optimal = -1
                     /\ m.our_improvement = <<0, 1>>
                     /\ m.closeness_ratio = <<>>
                /\ AllEmpty(d.warm) =>
                     /\ m.warm_curve = <<>>
                     /\ m.warm_target = <<0, 1>>
                     /\ m.our_improvement = <<0, 1>>
                     /\ m.closeness_ratio = <<>>
                /\ (\A k \in DOMAIN d.compile_times : d.compile_times[k] = -1)
                     => m.compile_time_median = <<-1, 1>>

\* C7 witness: a completed run with a benchmark whose trials all parsed
\* nothing and missed the artifact, or that ran no trial at all
C7_Witness ==
  /\ pc[1] = "done"
  /\ \E b \in DOMAIN metrics[1] :
       /\ AllEmpty(all_results[1][b].cold)
       /\ AllEmpty(all_results[1][b].warm)
       /\ Len(all_results[1][b].cold) = 2
  /\ \E b \in DOMAIN metrics[1] : metrics[1][b].cold_curve # <<>>

\* a completed run of two benchmarks with trials = 0
C7_WitnessNoTrials ==
  pc[1] = "done" /\ trials[1] = 0 /\ Len(benchmarks[1]) = 2

(***************************************************************************)
(* Properties of two invocations (specification SpecConc)                  *)
(***************************************************************************)
\* C5: two invocations with the same output_dir never share a run directory.
C5_OwnRunDirectory ==
  (ts[1] # -1 /\ ts[2] # -1) => RunDir(ts[1]) # RunDir(ts[2])

(***************************************************************************)
(* Properties of compute_metrics (specification SpecMetrics)               *)
(***************************************************************************)
M == result["a"]

\* t lies within 10% of m: t <= 1.1 m
Within10(t, m) == 10 * t[1] * m[2] <= 11 * m[1] * t[2]

IsMinOf(m, curve) ==
  /\ \E i \in DOMAIN curve : curve[i] = m
  /\ \A i \in DOMAIN curve : m[1] * curve[i][2] <= curve[i][1] * m[2]

\* cold_time_to_optimal is in [0, len], is the smallest index within 10% of
\* the minimum, and is len exactly when no value is
TimeToOptimalAsClaimed(m) ==
  /\ m.cold_time_to_optimal \in 0..Len(m.cold_curve)
  /\ \A mn \in {m.cold_curve[i] : i \in DOMAIN m.cold_curve} :
       IsMinOf(mn, m.cold_curve) =>
         /\ \A i \in 1..m.cold_time_to_optimal : ~Within10(m.cold_curve[i], mn)
         /\ m.cold_time_to_optimal < Len(m.cold_curve)
              => Within10(m.cold_curve[m.cold_time_to_optimal + 1], mn)
  /\ m.cold_time_to_optimal = Len(m.cold_curve)
       <=> ~\E i, j \in DOMAIN m.cold_curve :
              IsMinOf(m.cold_curve[j], m.cold_curve) /\ Within10(m.cold_curve[i], m.cold_curve[j])

\* C8 as stated: for every cold curve, the empty one included,
\* cold_time_to_optimal is in [0, len(cold_curve)], is the smallest index
\* whose value is at most 1.1 times the minimum, and is len(cold_curve)
\* exactly when no value lies within 10% of the minimum.
C8_Original == mpc = "returned" => TimeToOptimalAsClaimed(M)

\* times = [r["duration_ns"] / 1_000_000 for r in iter_results]
RenaissanceTimes(duration_ns) ==
  [i \in DOMAIN duration_ns |-> Rat(duration_ns[i], 1000000)]

\* iteration durations in ns whose first is, in decimal, exactly 10% above
\* the second: the rounded threshold reaches the first value ...
BoundaryInside == {<<11, 10>>, <<1100, 1000>>, <<135795, 123450>>, <<3300000, 3000000>>}
\* ... or falls below it
BoundaryOutside == {<<4741, 4310>>, <<9482, 8620>>, <<1284693355, 1167903050>>}

\* cold_time_to_optimal of one-trial Renaissance curves at the 10% boundary
BoundaryInDoubles ==
  /\ \A d \in BoundaryInside : TimeToOptimal(RenaissanceTimes(d)) = 0
  /\ \A d \in BoundaryOutside : TimeToOptimal(RenaissanceTimes(d)) = 1

\* C8 amended: for every non-empty cold curve cold_time_to_optimal is in
\* [0, len(cold_curve)] and is the smallest index i with
\* cold_curve[i] <= min(cold_curve) * 1.1 evaluated in doubles; on
\* non-negative latencies, the only ones the adapters produce, the minimum
\* satisfies it and len(cold_curve) is not returned. On integer and
\* half-integer latencies that is the smallest index whose value is at most
\* 1.1 times the minimum; on Renaissance latencies a value exactly 10% above
\* the minimum can fall outside (durations 4741 and 4310 ns give index 1).
\* For the empty cold curve cold_time_to_optimal is -1.
C8_TimeToOptimal ==
  /\ BoundaryInDoubles
  /\ mpc = "returned" =>
       IF M.cold_curve = <<>> THEN M.cold_time_to_optimal = -1
       ELSE /\ TimeToOptimalAsClaimed(M)
            /\ M.cold_time_to_optimal < Len(M.cold_curve)

\* C8 witness: a curve whose first value is more than 10% above the minimum
C8_Witness ==
  /\ mpc = "returned"
  /\ Len(M.cold_curve) = 2
  /\ M.cold_time_to_optimal = 1

\* C9 as stated: the trials [[10,20,30],[12],[8,22]] reduce to [10, 20, 30].
C9_Original ==
  (mpc = "returned" /\ arg["a"].cold = MedianExample)
    => M.cold_curve = << <<10, 1>>, <<20, 1>>, <<30, 1>> >>

\* C9 amended: the trials [[10,20,30],[12],[8,22]] reduce to [10, 21, 30]:
\* two trials have an entry at index 1, and median(20, 22) = 21.
C9_MedianExample ==
  (mpc = "returned" /\ arg["a"].cold = MedianExample)
    => M.cold_curve = << <<10, 1>>, <<21, 1>>, <<30, 1>> >>

\* C9 witness: compute_metrics returned for the example
C9_Witness == mpc = "returned" /\ arg["a"].cold = MedianExample /\ Len(M.cold_curve) = 3

EndToEndCase ==
  /\ mpc = "returned"
  /\ arg["a"].cold = EndToEndCold
  /\ arg["a"].warm = EndToEndWarm

\* the ratios of the example; 100 / 81.6 in floats is the double nearest to
\* 125/102
EndToEndRatios ==
  /\ M.cold_optimal = <<408, 5>>
  /\ M.optimal_speedup = Double(<<125, 102>>)
  /\ M.warm_target = <<50, 1>>
  /\ M.our_improvement = <<2, 1>>

\* C10 as stated: on the end-to-end example cold_optimal = 81.6,
\* optimal_speedup = 100/81.6, cold_time_to_optimal = 3, warm_target = 50 and
\* our_improvement = 2.
C10_Original ==
  EndToEndCase => (EndToEndRatios /\ M.cold_time_to_optimal = 3)

\* C10 amended: the same, with cold_time_to_optimal = 2: the value 85 at
\* index 2 is the first that is at most 79 * 1.1 = 86.9.
C10_EndToEnd ==
  EndToEndCase => (EndToEndRatios /\ M.cold_time_to_optimal = 2)

\* C10 witness: compute_metrics returned for the example
C10_Witness == EndToEndCase /\ Len(M.cold_curve) = 11

\* q = x / y for rationals x, y with y # 0
IsQuotient(q, x, y) == q[1] * y[1] * x[2] = x[1] * q[2] * y[2]

\* limb j of p shifted left by k bits
ShiftedLeftLimb(p, k, j) ==
  (Limb(p, j - k \div 14) % 2 ^ (14 - (k % 14))) * 2 ^ (k % 14)
    + Limb(p, j - k \div 14 - 1) \div 2 ^ (14 - (k % 14))
ShiftLeft(p, k) == [j \in 1..10 |-> ShiftedLeftLimb(p, k, j)]
\* z is the double nearest to x / y, for doubles x and y > 0, judged without
\* dividing: x lies between y times the two midpoints that bound the reals
\* rounding to z (the midpoint below a power of two is half as far). No
\* quotient of doubles is a midpoint, so the bounds may be taken as included.
IsDoubleQuotient(z, x, y) ==
  IF x = DoubleZero THEN z = DoubleZero
  ELSE /\ z # DoubleZero
       /\ x.e - y.e - z.e \in 40..60
       /\ LET k == x.e - y.e - z.e
              my == Limbs(y)
              mx == Limbs(x)
              above == MantissaProduct(WordLimbs(2 * z.hi, 2 * z.lo + 1), my)
              below ==
                IF z.lo > 0 THEN MantissaProduct(WordLimbs(2 * z.hi, 2 * z.lo - 1), my)
                ELSE IF z.hi > LIMB * 1024
                THEN MantissaProduct(WordLimbs(2 * z.hi - 1, HALF - 1), my)
                ELSE MantissaProduct(WordLimbs(4 * z.hi - 1, HALF - 1), my)
              narrow == IF z.lo = 0 /\ z.hi = LIMB * 1024 THEN 2 ELSE 1
          IN  /\ LimbsLe(below, ShiftLeft(mx, k + narrow), 10)
              /\ LimbsLe(ShiftLeft(mx, k + 1), above, 10)

\* C11: for accumulations of non-negative latencies with a non-empty cold
\* curve no zero denominator is divided by: optimal_speedup is 0 when
\* cold_optimal is 0 and the float quotient cold_curve[0] / cold_optimal
\* otherwise; our_improvement is 0 when warm_target is 0 and
\* cold_curve[0] / warm_target otherwise.
C11_ZeroDenominators ==
  (mpc = "returned" /\ M.cold_curve # <<>>) =>
    /\ IF M.cold_optimal[1] = 0 THEN M.optimal_speedup = <<0, 1>>
       ELSE IsDoubleQuotient(M.optimal_speedup,
                             Double(M.cold_curve[1]), Double(M.cold_optimal))
    /\ IF M.warm_target[1] = 0 THEN M.our_improvement = <<0, 1>>
       ELSE IsQuotient(M.our_improvement, M.cold_curve[1], M.warm_target)
    /\ M.our_improvement[2] > 0

\* C11 witness: all-zero cold latencies and a zero warm target
C11_Witness ==
  /\ mpc = "returned"
  /\ Len(M.cold_curve) = 2
  /\ M.cold_optimal = <<0, 1>>
  /\ M.warm_curve # <<>>
  /\ M.warm_target = <<0, 1>>

\* C12: when warm_target > 0, closeness_ratio has one entry per cold-curve
\* index and entry i is cold_curve[i] / warm_target; when warm_target is 0,
\* closeness_ratio is empty.
C12_ClosenessRatio ==
  mpc = "returned" =>
    IF M.warm_target[1] > 0
    THEN /\ Len(M.closeness_ratio) = Len(M.cold_curve)
         /\ \A i \in 1..Len(M.cold_curve) :
              /\ M.closeness_ratio[i][2] > 0
              /\ IsQuotient(M.closeness_ratio[i], M.cold_curve[i], M.warm_target)
    ELSE M.closeness_ratio = <<>>

\* C12 witness: a positive warm target and two different cold-curve values
C12_Witness ==
  /\ mpc = "returned"
  /\ M.warm_target[1] > 0
  /\ Len(M.closeness_ratio) = 2
  /\ M.closeness_ratio[1] # M.closeness_ratio[2]

\* the accumulation of the benchmark entry invocation 1 is working on
D == bench_data[1]
\* list new is list old, or list old with one entry appended
GrowsByAppend(old, new) ==
  \/ new = old
  \/ Len(new) = Len(old) + 1 /\ SubSeq(new, 1, Len(old)) = old
\* entry k of the accumulation is what trial k - 1 of this benchmark entry recorded
EntryOfTrial(k) ==
  /\ \E j \in DOMAIN E :
       /\ IsReturn(E[j], "run_cold")
       /\ E[j].bi = bi[1] /\ E[j].trial = k - 1
       /\ E[j].val = D.cold[k]
  /\ \E j \in DOMAIN E :
       /\ E[j].bi = bi[1] /\ E[j].trial = k - 1
       /\ \/ /\ IsReturn(E[j], "run_warm")
             /\ E[j].val = D.warm[k]
          \/ /\ E[j].op = "check" /\ E[j].ev = "missing"
             /\ D.warm[k] = <<>>
             /\ D.compile_times[k] = ABSENT

\* C13: at every trial boundary the cold, warm and compile_times lists of the
\* benchmark have the same length, the number of trials attempted so far, and
\* entry k is the one trial k recorded; the lists change only by appending
\* (a new benchmark starts new lists); each has length trials when the
\* benchmark is stored, and what is stored is never changed afterwards,
\* compute_metrics included.
C13_Accumulation ==
  /\ [](/\ pc[1] = "trial" =>
             /\ Len(D.cold) = trial[1]
             /\ Len(D.warm) = trial[1]
             /\ Len(D.compile_times) = trial[1]
             /\ \A k \in 1..trial[1] : EntryOfTrial(k)
        /\ (pc[1] \in {"bench", "dump", "done", "graphs"} /\ bi[1] > 1) =>
             /\ Len(D.cold) = trials[1]
             /\ Len(D.warm) = trials[1]
             /\ Len(D.compile_times) = trials[1]
             /\ all_results[1][benchmarks[1][bi[1] - 1]] = D)
  /\ [][/\ \/ pc[1] = "bench" /\ pc'[1] = "trial" /\ bench_data'[1] = EmptyBenchData
           \/ /\ GrowsByAppend(D.cold, bench_data'[1].cold)
              /\ GrowsByAppend(D.warm, bench_data'[1].warm)
              /\ GrowsByAppend(D.compile_times, bench_data'[1].compile_times)
        /\ all_results'[1] # all_results[1] => pc[1] = "trial" /\ pc'[1] = "bench"
        /\ pc'[1] \in {"dump", "done"} => all_results'[1] = all_results[1]]_vars

\* C13 witness: a finished invocation of two trials, the first without an
\* artifact and the second with a warm run
C13_Witness ==
  /\ pc[1] = "done"
  /\ trials[1] = 2
  /\ "a" \in DOMAIN all_results[1]
  /\ all_results[1]["a"].warm = << <<>>, <<12, 10>> >>
  /\ all_results[1]["a"].compile_times = <<ABSENT, 5>>
  /\ Len(all_results[1]["a"].cold) = 2

\* v is the median of the values val[k], k in the non-empty finite set V: the
\* mean of the lower and the upper middle value in sorted order
IsMedianOf(v, V, val) ==
  LET c == Cardinality(V)
      Below(x) == Cardinality({k \in V : val[k] < x})
      AtMost(x) == Cardinality({k \in V : val[k] <= x})
      Vals == {val[k] : k \in V}
      lo == CHOOSE x \in Vals :
              Below(x) <= (c - 1) \div 2 /\ AtMost(x) >= (c + 1) \div 2
      hi == CHOOSE x \in Vals :
              Below(x) <= c \div 2 /\ AtMost(x) >= c \div 2 + 1
  IN  v[2] > 0 /\ 2 * v[1] = (lo + hi) * v[2]

\* the trials that have an entry at index i (counted from 1)
Voters(trial_arrays, i) == {k \in DOMAIN trial_arrays : Len(trial_arrays[k]) >= i}
\* the length of the longest trial, 0 when there is no trial
LongestTrial(trial_arrays) ==
  IF trial_arrays = <<>> THEN 0
  ELSE CHOOSE n \in {Len(trial_arrays[k]) : k \in DOMAIN trial_arrays} :
         \A k \in DOMAIN trial_arrays : Len(trial_arrays[k]) <= n
\* curve is the per-index median of trial_arrays as C14 describes it
IsMedianCurve(curve, trial_arrays) ==
  /\ Len(curve) = LongestTrial(trial_arrays)
  /\ \A i \in 1..Len(curve) :
       IsMedianOf(curve[i], Voters(trial_arrays, i),
                  [k \in Voters(trial_arrays, i) |-> trial_arrays[k][i]])

\* C14: the median curve of a list of trials is as long as the longest trial,
\* its value at index i is the median of the values t[i] of exactly the trials
\* that have an entry at i, and it is empty when there are no trials or every
\* trial is empty.
C14_MedianAcrossTrials ==
  mpc = "returned" =>
    /\ IsMedianCurve(M.cold_curve, arg["a"].cold)
    /\ IsMedianCurve(M.warm_curve, arg["a"].warm)

\* C14 witness: trials of different lengths, the later index voted on by one
\* trial only
C14_Witness ==
  /\ mpc = "returned"
  /\ Len(arg["a"].cold) = 2
  /\ Len(arg["a"].cold[1]) = 1
  /\ Len(arg["a"].cold[2]) = 2
  /\ arg["a"].cold[1][1] # arg["a"].cold[2][1]
  /\ Len(M.cold_curve) = 2

\* C15: warm_target is the warm-curve value at index 2 (the third iteration)
\* when the warm curve has at least three entries, the last entry when it has
\* one or two, and 0 when it is empty; nothing but the warm curve enters it.
C15_WarmTarget ==
  mpc = "returned" =>
    M.warm_target =
      CASE Len(M.warm_curve) >= 3 -> M.warm_curve[3]
        [] Len(M.warm_curve) \in {1, 2} -> M.warm_curve[Len(M.warm_curve)]
        [] Len(M.warm_curve) = 0 -> <<0, 1>>

\* C15 witness: a warm curve of four entries whose third and last differ
C15_Witness ==
  /\ mpc = "returned"
  /\ Len(M.warm_curve) = 4
  /\ M.warm_curve[3] # M.warm_curve[4]
  /\ M.warm_target = M.warm_curve[3]

\* the trials whose compile time is present
Present(compile_times) == {k \in DOMAIN compile_times : compile_times[k] # ABSENT}

\* C16: compile_time_median is the median of exactly the present per-trial
\* compile times: absent entries do not enter it, a compile time of 0 does,
\* and it is the absent value when no trial has a compile time.
C16_CompileTimeMedian ==
  mpc = "returned" =>
    LET compile_times == arg["a"].compile_times
    IN  IF Present(compile_times) = {}
        THEN M.compile_time_median = <<ABSENT, 1>>
        ELSE IsMedianOf(M.compile_time_median, Present(compile_times), compile_times)

\* C16 witness: three trials, one of them without a compile time
C16_Witness ==
  /\ mpc = "returned"
  /\ Len(arg["a"].compile_times) = 3
  /\ Cardinality(Present(arg["a"].compile_times)) = 2
  /\ M.compile_time_median = <<13, 2>>

\* C17: once the paths are resolved, validate_setup has succeeded and every
\* requested benchmark is available, main() calls run_benchmarks with
\* arguments it accepts, so that the invocation starts and main() does not end
\* in an exception of the call; and no invocation of run_benchmarks, hence no
\* adapter run, starts before validate_setup has succeeded.
C17_MainRunsOrchestrator ==
  /\ (cli.validated /\ cli.available /\ cli.pc # "run") =>
       /\ cli.pc = "running"
       /\ cli.exc = "none"
       /\ pc[1] # "off"
  /\ (pc[1] # "off" /\ cli.pc # "off") => cli.validated

=============================================================================
